---- MODULE Spec2Model ----
(***************************************************************************)
(* A model of the xjson package: the XJson record (xjson/xjson.py) over an *)
(* lxml element tree, the NamespaceMap it keeps, and the MetadataRegistry  *)
(* (xjson/registry.py).                                                    *)
(*                                                                         *)
(* xjson/namespaces.py (NamespaceMap) and xjson/json_target.py             *)
(* (JSONLDTarget) are imported by xjson.py but are not part of the source  *)
(* tree; the definitions that stand for them follow the written design     *)
(* (sections 3, 4.1-4.3) and say so where they are defined.                *)
(***************************************************************************)
EXTENDS Integers, Sequences, FiniteSets, TLC

\* ------------------------------------------------------------------ bounds
MaxNodes == 3        \* elements ever created in one run
MaxRecs == 3         \* XJson instances alive at one time
MaxAttrs == 1        \* attributes set in one run

\* ------------------------------------------------------------ value spaces
URIs == {"u1", "u2"}
NoNS == "none"
Locals == {"a"}
Values == {"v"}
NoVal == "None"
NoText == "None"
Texts == {NoText}

\* Prefixes are minted in a fixed order; a map holds the position of a
\* uri's prefix in that order, 0 for "no prefix registered".
PrefixNames == <<"p1", "p2", "p3">>
Prefixes == {PrefixNames[i] : i \in 1 .. Cardinality(URIs)}
PrefixIndex(p) == CHOOSE i \in 1 .. Len(PrefixNames) : PrefixNames[i] = p

\* The three written forms of a name handed to the API:
\*   plain  "local", clark "{uri}local", short "prefix:local".
PlainNames == [form : {"plain"}, ns : {NoNS}, local : Locals]
ClarkNames == [form : {"clark"}, ns : URIs, local : Locals]
ShortNames == [form : {"short"}, ns : Prefixes, local : Locals]
Names == PlainNames \cup ClarkNames \cup ShortNames
NoName == [form |-> "plain", ns |-> NoNS, local |-> "none"]

\* xjson.py:120 uuid5(NAMESPACE_DNS, XJSON_NAMESPACE + 'xjson'): one constant.
XJsonIdent == "uuid5-xjson"

VARIABLES
    elem,       \* the lxml elements: elem[n] = [tag, parent, kids, attrib, text]
    maps,       \* the NamespaceMap instances: maps[m][uri] = prefix or 0
    recs,       \* the XJson instances alive: a set of [root, ns, upd]
    last,       \* the last call made and what it returned
    registry,   \* MetadataRegistry: the dict, ident -> item
    regids,     \* MetadataRegistry.registered_ids
    reglast,    \* the last registry call and its outcome
    codec       \* one document on its way through decode, encode, decode

vars == <<elem, maps, recs, last, registry, regids, reglast, codec>>

\* an identifier that follows the element the instance is built on
XJsonUuidPerElement(e) == IF e <= 1 THEN XJsonIdent ELSE "id2"

\* xjson.py:120-122 self.uuid = uuid5(NAMESPACE_DNS, XJSON_NAMESPACE +
\* 'xjson'); self.ident = self.uuid: no argument of __init__ enters it
XJsonUuid(e) == XJsonIdent

\* An XJson instance is its fields [root, ns, upd, ident]: the element it
\* wraps, the NamespaceMap instance it holds, its _update_namespaces flag
\* and its identifier.  Its other fields are fixed by these (attrib and tag
\* are the root's), so two instances with equal fields behave alike and
\* recs holds them as a set.
Rec(e, m, u) == [root |-> e, ns |-> m, upd |-> u, ident |-> XJsonUuid(e)]
NoRec == Rec(0, 0, FALSE)
EmptyMap == [u \in URIs |-> 0]

\* A NamespaceMap instance is named by the statement that made it:
\* OwnMap(n) by XJson(tag=...) for its new element n, ViewMap(e) by
\* "namespaces or NamespaceMap()" (xjson.py:123) when element e is wrapped.
\* One instance of each name is alive at a time.
MapIds == 1 .. (2 * MaxNodes)
OwnMap(n) == n
ViewMap(e) == MaxNodes + e
UsedMaps(rs) == {rc.ns : rc \in rs}
Min(S) == CHOOSE x \in S : \A y \in S : x <= y

\* -------------------------------------------------------------- lxml tree
\* etree.QName(tag): ValueError on "prefix:local" (a colon is no name
\* character for lxml); otherwise .namespace is the uri or None.
QNameRaises(name) == name.form = "short"
QNameNamespace(name) == name.ns

\* the tag lxml stores for an accepted name
TagOf(name) == [ns |-> name.ns, local |-> name.local]

RECURSIVE IsAncestorOrSame(_, _, _)
IsAncestorOrSame(el, a, n) ==
    IF n = 0 THEN FALSE
    ELSE IF n = a THEN TRUE
    ELSE IsAncestorOrSame(el, a, el[n].parent)

SeqToSet(s) == {s[i] : i \in 1 .. Len(s)}

RECURSIVE SumLen(_, _)
SumLen(el, n) == IF n = 0 THEN 0 ELSE Len(el[n].attrib) + SumLen(el, n - 1)
AttribCount(el) == SumLen(el, Len(el))

RemoveAt(s, i) == SubSeq(s, 1, i - 1) \o SubSeq(s, i + 1, Len(s))
IndexOf(s, x) == CHOOSE i \in 1 .. Len(s) : s[i] = x

\* the elements below n in document order (n itself excluded)
RECURSIVE Descendants(_, _)
RECURSIVE DescendantsOfSeq(_, _)
Descendants(el, n) == DescendantsOfSeq(el, el[n].kids)
DescendantsOfSeq(el, s) ==
    IF s = <<>> THEN <<>>
    ELSE <<Head(s)>> \o Descendants(el, Head(s)) \o DescendantsOfSeq(el, Tail(s))

\* element.set(key, value): replaces the value in place or appends the pair
AttribSet(attrib, key, value) ==
    IF \E i \in 1 .. Len(attrib) : attrib[i].key = key
    THEN [i \in 1 .. Len(attrib) |->
            IF attrib[i].key = key THEN [key |-> key, val |-> value] ELSE attrib[i]]
    ELSE Append(attrib, [key |-> key, val |-> value])

\* element.get(key): the value or None
AttribGet(attrib, key) ==
    IF \E i \in 1 .. Len(attrib) : attrib[i].key = key
    THEN attrib[CHOOSE i \in 1 .. Len(attrib) : attrib[i].key = key].val
    ELSE NoVal

\* ---------------------------------------------------------- NamespaceMap
\* xjson/namespaces.py is not in the source tree.  What xjson.py relies on:
\* the map is a dict prefix -> uri (append reads .values() as uris, the
\* query wrapper hands it to lxml as the prefix map).  Here a map is the
\* inverse function uri -> prefix, 0 for an unregistered uri; the operators
\* follow section 4.1 of the design.

Registered(m) == {u \in URIs : m[u] # 0}
UsedPrefixes(m) == {m[u] : u \in Registered(m)}

\* "mints a new short, unused prefix": the first prefix not in use
NsMint(m) == Min((1 .. (Cardinality(URIs) + 1)) \ UsedPrefixes(m))

\* add_from_uri(uri): the existing prefix if known, else a fresh one
AddFromUri(m, uri) ==
    IF m[uri] # 0 THEN m ELSE [m EXCEPT ![uri] = NsMint(m)]

\* add_from_tag(tag): no-op for an unqualified name
AddFromTag(m, tag) ==
    IF tag.ns = NoNS THEN m ELSE AddFromUri(m, tag.ns)

RECURSIVE AddAll(_, _)
AddAll(m, uris) ==
    IF uris = <<>> THEN m ELSE AddAll(AddFromUri(m, Head(uris)), Tail(uris))

\* the namespaces of one element: its tag's, then its attribute names'
RECURSIVE AttribUris(_)
AttribUris(attrib) ==
    IF attrib = <<>> THEN <<>>
    ELSE (IF Head(attrib).key.ns = NoNS THEN <<>> ELSE <<Head(attrib).key.ns>>)
         \o AttribUris(Tail(attrib))

RECURSIVE TreeUris(_, _)
RECURSIVE TreeUrisOfSeq(_, _)
TreeUris(el, n) ==
    (IF el[n].tag.ns = NoNS THEN <<>> ELSE <<el[n].tag.ns>>)
    \o AttribUris(el[n].attrib) \o TreeUrisOfSeq(el, el[n].kids)
TreeUrisOfSeq(el, s) ==
    IF s = <<>> THEN <<>>
    ELSE TreeUris(el, Head(s)) \o TreeUrisOfSeq(el, Tail(s))

\* harvest_namespaces(root): every element and attribute name, depth-first
HarvestNamespaces(m, el, root) == AddAll(m, TreeUris(el, root))

\* dict.values(): the registered uris in insertion order (prefixes are
\* minted in increasing order and never removed)
RECURSIVE NsValuesFrom(_, _)
NsValuesFrom(m, p) ==
    IF p > Cardinality(URIs) + 1 THEN <<>>
    ELSE (IF \E u \in URIs : m[u] = p
          THEN <<CHOOSE u \in URIs : m[u] = p>> ELSE <<>>)
         \o NsValuesFrom(m, p + 1)
NsValues(m) == NsValuesFrom(m, 1)

\* dict lookup map[key]: the keys are prefixes
NsHasKey(m, key) == PrefixIndex(key) \in UsedPrefixes(m)
NsGetItem(m, key) == CHOOSE u \in URIs : m[u] = PrefixIndex(key)

\* bool(map): an empty dict is falsy
NsTruthy(m) == Registered(m) # {}

\* shorten(tag): registers an unregistered namespace first; the short name
\* is prefix:local, or the bare local name when there is no namespace
ShortenMap(m, tag) == AddFromTag(m, tag)
ShortenName(m, tag) ==
    IF tag.ns = NoNS THEN [form |-> "plain", ns |-> NoNS, local |-> tag.local]
    ELSE [form |-> "short", ns |-> PrefixNames[AddFromTag(m, tag)[tag.ns]],
          local |-> tag.local]


\* ------------------------------------------------------------------ XJson
\* The operations below thread a world w = [elem, maps, recs] through the
\* statements of each method.

World == [elem |-> elem, maps |-> maps, recs |-> recs, ok |-> TRUE]

Fresh(rc) == Rec(rc.root, rc.ns, FALSE)
Stale(rc) == Rec(rc.root, rc.ns, TRUE)
SetRec(w, old, new) == [w EXCEPT !.recs = (@ \ {old}) \cup {new}]

\* xjson.py:198-205 the namespaces property of instance rc
NamespacesGet(w, rc) ==
    IF rc.upd
    THEN SetRec([w EXCEPT !.maps[rc.ns] = HarvestNamespaces(@, w.elem, rc.root)],
                rc, Fresh(rc))
    ELSE w

\* xjson.py:234-245 _try_expanding_tag: QName(tag) raises ValueError on a
\* short name (swallowed); for a clark name the map is read through the
\* property and looked up by uri, which is no key of it (KeyError,
\* swallowed); the expanded name is bound to a local and dropped.
TryExpandingTag(w, rc, name) ==
    IF QNameRaises(name) THEN w
    ELSE IF QNameNamespace(name) # NoNS THEN NamespacesGet(w, rc)
    ELSE w

\* xjson.py:123 namespaces or NamespaceMap(): the map the new instance
\* holds; given = 0 stands for namespaces=None
InitMapId(w, e, given) ==
    IF given # 0 /\ NsTruthy(w.maps[given]) THEN given ELSE ViewMap(e)

\* xjson.py:117-151 __init__(elem=e, namespaces=given) on an element.
\* A second ViewMap(e) beside a live one is told apart from it only when
\* their contents differ; that case is outside the model (ok = FALSE).
InitFromElem(w, e, given) ==
    LET m == InitMapId(w, e, given)
        x0 == Rec(e, m, TRUE)
        w1 == [w EXCEPT !.recs = @ \cup {x0},
                        !.maps[m] = IF m = given THEN @ ELSE EmptyMap]
        w2 == NamespacesGet(w1, x0)
        w3 == [w2 EXCEPT !.maps[m] = AddFromTag(@, w2.elem[e].tag)]
    IN [w3 EXCEPT !.ok = @ /\ (m = given \/ m \notin UsedMaps(w.recs)
                                         \/ w3.maps[m] = w.maps[m])]

\* xjson.py:353-359 _wrap_element(elem), elem an element: the world after,
\* and the instance returned
WrapElement(w, rc, e) ==
    LET w1 == NamespacesGet(w, rc)
    IN InitFromElem(w1, e, rc.ns)
Wrapped(w, rc, e) ==
    Rec(e, InitMapId(NamespacesGet(w, rc), e, rc.ns), FALSE)

\* wrapping a list of elements, one after the other
RECURSIVE WrapAll(_, _, _)
WrapAll(acc, rc, es) ==
    IF es = <<>> THEN acc
    ELSE WrapAll([w |-> WrapElement(acc.w, rc, Head(es)),
                  made |-> acc.made \cup {Wrapped(acc.w, rc, Head(es))}],
                 Fresh(rc), Tail(es))

NoCall == [op |-> "none", rec |-> NoRec, name |-> NoName, desc |-> FALSE,
           again |-> FALSE, nodes |-> <<>>, shape |-> "none", made |-> {},
           val |-> NoVal, err |-> "none", text |-> <<>>, other |-> NoRec,
           pre |-> EmptyMap]

NewElement(name, parent, text) ==
    [tag |-> TagOf(name), parent |-> parent, kids |-> <<>>, attrib |-> <<>>,
     text |-> text]

Commit(w, call) ==
    /\ w.ok
    /\ Cardinality(w.recs) <= MaxRecs
    /\ elem' = w.elem
    /\ maps' = w.maps
    /\ recs' = w.recs
    /\ last' = call
    /\ UNCHANGED <<registry, regids, reglast, codec>>

\* xjson.py:117-151 XJson(tag=name, text=text): a new element, a new map
XJsonInit(w, name, text) ==
    LET n == Len(w.elem) + 1
        m == OwnMap(n)
        x0 == Rec(n, m, TRUE)
        w1 == [w EXCEPT !.elem = Append(@, NewElement(name, 0, text)),
                        !.recs = @ \cup {x0},
                        !.maps[m] = EmptyMap]
        w2 == NamespacesGet(w1, x0)
    IN [w2 EXCEPT !.maps[m] = AddFromTag(@, w2.elem[n].tag)]

New(name, text) ==
    /\ Len(elem) < MaxNodes
    /\ IF name.form = "short"
       THEN \* etree.Element(tag): ValueError, invalid tag name
            Commit(World, [NoCall EXCEPT !.op = "new", !.name = name,
                                         !.err = "ValueError"])
       ELSE Commit(XJsonInit(World, name, text),
                   [NoCall EXCEPT !.op = "new", !.name = name,
                       !.rec = Rec(Len(elem) + 1, OwnMap(Len(elem) + 1), FALSE)])

\* xjson.py:247-265 add_subelement(tag, text)
AddSubelement(rc, name, text) ==
    /\ Len(elem) < MaxNodes
    /\ LET w1 == TryExpandingTag(World, rc, name)
           call == [NoCall EXCEPT !.op = "add_subelement", !.rec = rc,
                                  !.name = name, !.pre = maps[rc.ns]]
       IN IF name.form = "short"
          THEN \* etree.SubElement(root, tag): ValueError, invalid tag name
               Commit(w1, [call EXCEPT !.err = "ValueError"])
          ELSE LET n == Len(elem) + 1
                   w2 == SetRec([w1 EXCEPT
                                   !.elem = Append([@ EXCEPT ![rc.root].kids = Append(@, n)],
                                                   NewElement(name, rc.root, text))],
                                rc, Stale(rc))
               IN Commit(WrapElement(w2, Stale(rc), n),
                         [call EXCEPT !.made = {Wrapped(w2, Stale(rc), n)},
                                      !.nodes = <<n>>])

\* lxml element.append(child): the child leaves its old parent and becomes
\* the last child
TreeAppend(el, parent, child) ==
    LET old == el[child].parent
        el1 == IF old = 0 THEN el
               ELSE [el EXCEPT ![old].kids = RemoveAt(@, IndexOf(@, child))]
    IN [el1 EXCEPT ![parent].kids = Append(@, child), ![child].parent = parent]

\* xjson.py:267-272 append(xjson): graft the tree, then add every uri of
\* the other map to this map.  The other map is read once, this map each
\* time round the loop.
RECURSIVE AppendUris(_, _, _)
AppendUris(w, a, uris) ==
    IF uris = <<>> THEN w
    ELSE LET w1 == NamespacesGet(w, a)
         IN AppendUris([w1 EXCEPT !.maps[a.ns] = AddFromUri(@, Head(uris))],
                       Fresh(a), Tail(uris))

\* an append that leaves the other map out
XJsonAppendNoMerge(w, a, b) ==
    [w EXCEPT !.elem = TreeAppend(@, a.root, b.root)]

\* an append that takes the other map's contents in place of its own
XJsonAppendReplace(w, a, b) ==
    LET w1 == [w EXCEPT !.elem = TreeAppend(@, a.root, b.root)]
        w2 == NamespacesGet(w1, b)
    IN [w2 EXCEPT !.maps[a.ns] = w2.maps[b.ns]]

XJsonAppend(w, a, b) ==
    LET w1 == [w EXCEPT !.elem = TreeAppend(@, a.root, b.root)]
        w2 == NamespacesGet(w1, b)
    IN AppendUris(w2, a, NsValues(w2.maps[b.ns]))

AppendRec(a, b) ==
    LET call == [NoCall EXCEPT !.op = "append", !.rec = a, !.other = b,
                               !.pre = maps[a.ns]]
    IN IF IsAncestorOrSame(elem, b.root, a.root)
       THEN \* lxml: ValueError, cannot append parent to itself
            Commit(World, [call EXCEPT !.err = "ValueError"])
       ELSE Commit(XJsonAppend(World, a, b), call)

\* xjson.py:213-222 set_attributes(**{key: value}), one pair
SetAttributes(rc, key, value) ==
    /\ AttribCount(elem) < MaxAttrs
    /\ LET w1 == TryExpandingTag(World, rc, key)
           \* the value is a plain string: QName(value) has no namespace
           call == [NoCall EXCEPT !.op = "set_attributes", !.rec = rc,
                                  !.name = key, !.val = value,
                                  !.pre = maps[rc.ns]]
       IN IF key.form = "short"
          THEN \* element.set(key, value): ValueError, invalid attribute name
               Commit(w1, [call EXCEPT !.err = "ValueError"])
          ELSE Commit([w1 EXCEPT !.elem[rc.root].attrib =
                                     AttribSet(@, TagOf(key), value)], call)

\* xjson.py:207-211 get_attribute(key): the key is handed to element.get
\* as written
GetAttribute(rc, key) ==
    LET w1 == TryExpandingTag(World, rc, key)
        found == IF key.form = "short" THEN NoVal
                 ELSE AttribGet(elem[rc.root].attrib, TagOf(key))
    IN Commit(w1, [NoCall EXCEPT !.op = "get_attribute", !.rec = rc,
                                 !.name = key, !.val = found])

\* reading the namespaces property from outside
Namespaces(rc) ==
    Commit(NamespacesGet(World, rc),
           [NoCall EXCEPT !.op = "namespaces", !.rec = rc])

\* xjson.py:224-227 get_children(), the generator run to its end
GetChildren(rc) ==
    LET cs == elem[rc.root].kids
        out == WrapAll([w |-> World, made |-> {}], rc, cs)
    IN Commit(out.w, [NoCall EXCEPT !.op = "get_children", !.rec = rc,
                                    !.nodes = cs, !.made = out.made])

\* xjson.py:229-232 get_parent(): on a root element getparent() is None and
\* the constructor raises ValueError after the namespaces were read
GetParent(rc) ==
    LET p == elem[rc.root].parent
        call == [NoCall EXCEPT !.op = "get_parent", !.rec = rc]
    IN IF p = 0
       THEN Commit(NamespacesGet(World, rc), [call EXCEPT !.err = "ValueError"])
       ELSE Commit(WrapElement(World, rc, p),
                   [call EXCEPT !.nodes = <<p>>, !.made = {Wrapped(World, rc, p)}])

\* lxml findall(path, namespaces=map) for the paths "name" (children) and
\* ".//name" (descendants): the tag a path name stands for
PathTag(m, name) ==
    IF name.form = "short"
    THEN [ns |-> NsGetItem(m, name.ns), local |-> name.local]
    ELSE TagOf(name)

ElementFindAll(el, root, m, desc, name) ==
    LET cands == IF desc THEN Descendants(el, root) ELSE el[root].kids
        want == PathTag(m, name)
    IN SelectSeq(cands, LAMBDA n : el[n].tag = want)

\* the unwrap rule without its one-result branch
UnwrapNoSingle(results, unwrap) ==
    IF unwrap /\ Len(results) = 0 THEN "None" ELSE "list"

\* xjson.py:328-337 the unwrap rule: what is returned for a result list
Unwrap(results, unwrap) ==
    IF unwrap
    THEN IF Len(results) = 0 THEN "None"
         ELSE IF Len(results) = 1 THEN "single"
         ELSE "list"
    ELSE "list"

\* a query whose wrapper takes each result out of the tree, as lxml does
\* when an element is appended to a new parent
RECURSIVE DetachAll(_, _)
DetachAll(el, ns) ==
    IF ns = <<>> THEN el
    ELSE LET n == Head(ns)
             old == el[n].parent
         IN DetachAll([el EXCEPT ![old].kids = RemoveAt(@, IndexOf(@, n)),
                                 ![n].parent = 0], Tail(ns))
QueryDetach(w, rc, desc, name, unwrap) ==
    LET w1 == NamespacesGet(w, rc)
        m == w1.maps[rc.ns]
    IN IF name.form = "short" /\ ~NsHasKey(m, name.ns)
       THEN [w |-> w1, made |-> {}, nodes |-> <<>>, shape |-> "none",
             err |-> "SyntaxError"]
       ELSE LET results == ElementFindAll(w1.elem, rc.root, m, desc, name)
                out == WrapAll([w |-> w1, made |-> {}], Fresh(rc), results)
            IN [w |-> [out.w EXCEPT !.elem = DetachAll(@, results)],
                made |-> out.made, nodes |-> results,
                shape |-> Unwrap(results, unwrap), err |-> "none"]

\* xjson.py:310-346 _query for method = 'findall'
Query(w, rc, desc, name, unwrap) ==
    LET w1 == NamespacesGet(w, rc)
        m == w1.maps[rc.ns]
    IN IF name.form = "short" /\ ~NsHasKey(m, name.ns)
       THEN \* lxml: SyntaxError, prefix not found in prefix map
            [w |-> w1, made |-> {}, nodes |-> <<>>, shape |-> "none",
             err |-> "SyntaxError"]
       ELSE LET results == ElementFindAll(w1.elem, rc.root, m, desc, name)
                out == WrapAll([w |-> w1, made |-> {}], Fresh(rc), results)
            IN [w |-> out.w, made |-> out.made, nodes |-> results,
                shape |-> Unwrap(results, unwrap), err |-> "none"]

\* xjson.py:160-167 record[path] is findall(path, unwrap=True)
GetItem(rc, desc, name) ==
    LET out == Query(World, rc, desc, name, TRUE)
    IN Commit(out.w, [NoCall EXCEPT !.op = "getitem", !.rec = rc, !.name = name,
                                    !.pre = maps[rc.ns],
                                    !.again = (last.op = "getitem" /\ last.rec = rc
                                               /\ last.name = name /\ last.desc = desc),
                                    !.desc = desc, !.nodes = out.nodes,
                                    !.made = out.made, !.shape = out.shape,
                                    !.err = out.err])

\* xjson.py:24-31 qname_str: "prefix:local", or the bare local name
QNameStr(short) ==
    IF short.ns # NoNS THEN short.ns \o ":" \o short.local
    ELSE short.local

\* xjson.py:153-158 __str__: the text, as its pieces in order
XJsonStr(w, rc) ==
    <<"XJson record ", rc.ident, ", tagged with ",
      QNameStr(ShortenName(w.maps[rc.ns], w.elem[rc.root].tag))>>

Str(rc) ==
    LET w1 == NamespacesGet(World, rc)
        w2 == [w1 EXCEPT !.maps[rc.ns] = ShortenMap(@, w1.elem[rc.root].tag)]
    IN Commit(w2, [NoCall EXCEPT !.op = "str", !.rec = rc,
                                 !.text = XJsonStr(w1, rc)])

\* -------------------------------------------------------------- TreeCodec
\* xjson/json_target.py is not part of the source tree: decode and encode
\* follow the written design (sections 3, 4.2, 4.3).  An XML document is
\* its element tree, [tag, attrib, text, kids]; a frame of the body is
\* [data, attributes, kids], kids an ordered list of [key, items], items
\* holding one frame per occurrence of the key (more than one: the list of
\* the repeated-tag rule).
MaxKids == 3         \* children of the document root

DocTexts == {NoText, "t"}
DocTags ==
    {[ns |-> NoNS, local |-> "a"], [ns |-> NoNS, local |-> "b"]}
    \cup [ns : URIs, local : {"a"}]
DocAttribs ==
    {<<>>} \cup {<<[key |-> [ns |-> u, local |-> "k"], value |-> "v"]>> : u \in URIs}
DocLeaves == [tag : DocTags, attrib : DocAttribs, text : DocTexts, kids : {<<>>}]
DocKids == UNION {[1 .. n -> DocLeaves] : n \in 0 .. MaxKids}
DocRootTags == {[ns |-> NoNS, local |-> "a"], [ns |-> "u1", local |-> "a"]}
Documents == [tag : DocRootTags, attrib : {<<>>}, text : {NoText}, kids : DocKids]

NoFrame == [data |-> NoText, attributes |-> <<>>, kids |-> <<>>]
NoDoc == [tag |-> [ns |-> NoNS, local |-> "none"], attrib |-> <<>>,
          text |-> NoText, kids |-> <<>>]
NoCodec == [pc |-> "idle", doc |-> NoDoc, body |-> <<>>, context |-> EmptyMap,
            xml |-> <<>>, err |-> "none", body2 |-> <<>>, context2 |-> EmptyMap]

\* 4.2 element-start: each attribute name is shortened, in document order
RECURSIVE ShortenAttribs(_, _)
ShortenAttribs(m, attrib) ==
    IF attrib = <<>> THEN [m |-> m, out |-> <<>>]
    ELSE LET a == Head(attrib)
             m1 == ShortenMap(m, a.key)
             rest == ShortenAttribs(m1, Tail(attrib))
         IN [m |-> rest.m,
             out |-> <<[key |-> ShortenName(m1, a.key), value |-> a.value]>>
                     \o rest.out]

\* 4.2 element-end: attach the frame to its parent under its shortened
\* tag, as a further item when the tag is already a key of the parent
KeyIndex(kids, key) ==
    IF \E i \in 1 .. Len(kids) : kids[i].key = key
    THEN CHOOSE i \in 1 .. Len(kids) : kids[i].key = key
    ELSE 0
Attach(kids, key, frame) ==
    LET i == KeyIndex(kids, key)
    IN IF i = 0 THEN Append(kids, [key |-> key, items |-> <<frame>>])
       ELSE [kids EXCEPT ![i].items = Append(@, frame)]

\* 4.2 decode: one pass in document order; the map is carried from event
\* to event and mints a prefix where a namespace is met first
RECURSIVE DecodeElement(_, _)
RECURSIVE DecodeKids(_, _, _)
DecodeElement(m, el) ==
    LET m1 == ShortenMap(m, el.tag)
        key == ShortenName(m1, el.tag)
        at == ShortenAttribs(m1, el.attrib)
        sub == DecodeKids(at.m, el.kids, <<>>)
    IN [m |-> sub.m, key |-> key,
        frame |-> [data |-> el.text, attributes |-> at.out, kids |-> sub.kids]]
DecodeKids(m, els, acc) ==
    IF els = <<>> THEN [m |-> m, kids |-> acc]
    ELSE LET d == DecodeElement(m, Head(els))
         IN DecodeKids(d.m, Tail(els), Attach(acc, d.key, d.frame))

\* 4.2 top level: the root frame under its key, with the accumulated map
TreeDecode(doc) ==
    LET d == DecodeElement(EmptyMap, doc)
    IN [body |-> <<[key |-> d.key, items |-> <<d.frame>>]>>, context |-> d.m]

\* expand(prefix:local) through the context; an unknown prefix is an error
CanExpand(m, key) == key.form = "plain" \/ NsHasKey(m, key.ns)
Expand(m, key) ==
    IF key.form = "plain" THEN [ns |-> NoNS, local |-> key.local]
    ELSE [ns |-> NsGetItem(m, key.ns), local |-> key.local]

RECURSIVE ExpandAttribs(_, _)
ExpandAttribs(m, attributes) ==
    IF attributes = <<>> THEN <<>>
    ELSE <<[key |-> Expand(m, Head(attributes).key),
            value |-> Head(attributes).value]>>
         \o ExpandAttribs(m, Tail(attributes))

\* 4.3 encode: every key in recorded order, every occurrence of the key
RECURSIVE EncodeKids(_, _)
RECURSIVE EncodeItems(_, _, _)
EncodeFrame(m, key, frame) ==
    [tag |-> Expand(m, key), attrib |-> ExpandAttribs(m, frame.attributes),
     text |-> frame.data, kids |-> EncodeKids(m, frame.kids)]
\* an encoder that emits a repeated key's first occurrence only
EncodeItemsFirst(m, key, items) ==
    IF items = <<>> THEN <<>> ELSE <<EncodeFrame(m, key, Head(items))>>
EncodeItems(m, key, items) ==
    IF items = <<>> THEN <<>>
    ELSE <<EncodeFrame(m, key, Head(items))>> \o EncodeItems(m, key, Tail(items))
EncodeKids(m, kids) ==
    IF kids = <<>> THEN <<>>
    ELSE EncodeItems(m, Head(kids).key, Head(kids).items)
         \o EncodeKids(m, Tail(kids))

\* every key and attribute name of a body resolves through the context
RECURSIVE Resolvable(_, _)
Resolvable(m, kids) ==
    \A i \in 1 .. Len(kids) :
        /\ CanExpand(m, kids[i].key)
        /\ \A j \in 1 .. Len(kids[i].items) :
              /\ \A a \in 1 .. Len(kids[i].items[j].attributes) :
                    CanExpand(m, kids[i].items[j].attributes[a].key)
              /\ Resolvable(m, kids[i].items[j].kids)
TreeEncode(body, context) ==
    IF Resolvable(context, body)
    THEN [err |-> "none", xml |-> EncodeKids(context, body)]
    ELSE [err |-> "ResolutionError", xml |-> <<>>]

\* section 3 structural equality: key order is ignored, the order inside a
\* same-key list is kept
RECURSIVE Structure(_)
RECURSIVE StructureOfItems(_)
Structure(kids) ==
    {[key |-> kids[i].key, items |-> StructureOfItems(kids[i].items)] :
        i \in 1 .. Len(kids)}
StructureOfItems(items) ==
    [j \in 1 .. Len(items) |->
        [data |-> items[j].data,
         attributes |-> {items[j].attributes[a] :
                            a \in 1 .. Len(items[j].attributes)},
         kids |-> Structure(items[j].kids)]]

\* ------------------------------------------------------- MetadataRegistry
\* registry.py: the registry is a dict ident -> item; registered_ids is a
\* class attribute that no method adds to.
Idents == {XJsonIdent, "id2"}
Objs == 1 .. MaxNodes
Items == [ident : Idents, obj : Objs]
NoItem == [ident |-> "none", obj |-> 0]
EmptyRegistry == [k \in Idents |-> NoItem]

NoRegCall == [op |-> "none", item |-> NoItem, key |-> "none", replace |-> FALSE,
              verbose |-> FALSE, pre |-> EmptyRegistry, err |-> "none",
              logged |-> FALSE]

\* registry.py:32-43 register: what the dict holds afterwards
RegistryRegister(reg, ids, item, replace) ==
    IF ~replace
    THEN reg     \* the return of line 40 ends every call of this branch
    ELSE [reg EXCEPT ![item.ident] = item]

\* registry.py:37-39 the warning is logged for a known id when verbose
RegistryLogs(ids, item, replace, verbose) ==
    ~replace /\ item.ident \in ids /\ verbose

\* registry.py:45-48 deregister: del self[key]
RegistryHas(reg, key) == reg[key] # NoItem
\* a deregister that empties the registry
RegistryDelClear(reg, key) ==
    IF RegistryHas(reg, key) THEN [k \in DOMAIN reg |-> [ident |-> "none", obj |-> 0]]
    ELSE reg
RegistryDel(reg, key) ==
    IF RegistryHas(reg, key) THEN [reg EXCEPT ![key] = NoItem] ELSE reg
RegistryDelErr(reg, key) ==
    IF RegistryHas(reg, key) THEN "none" ELSE "KeyError"

Register(item, replace, verbose) ==
    /\ registry' = RegistryRegister(registry, regids, item, replace)
    /\ reglast' = [NoRegCall EXCEPT !.op = "register", !.item = item,
                                    !.key = item.ident, !.replace = replace,
                                    !.verbose = verbose, !.pre = registry,
                                    !.logged = RegistryLogs(regids, item, replace, verbose)]
    /\ UNCHANGED <<elem, maps, recs, last, regids, codec>>

Deregister(key) ==
    /\ registry' = RegistryDel(registry, key)
    /\ reglast' = [NoRegCall EXCEPT !.op = "deregister", !.key = key,
                                    !.pre = registry,
                                    !.err = RegistryDelErr(registry, key)]
    /\ UNCHANGED <<elem, maps, recs, last, regids, codec>>

\* xjson.py:284-288 XJson.register: self.registry.register(self)
XJsonRegister(rc) ==
    Register([ident |-> rc.ident, obj |-> rc.root], FALSE, FALSE)

Init ==
    /\ elem = <<>>
    /\ maps = [m \in MapIds |-> EmptyMap]
    /\ recs = {}
    /\ last = NoCall
    /\ registry = EmptyRegistry
    /\ regids = {}
    /\ reglast = NoRegCall
    /\ codec = NoCodec

DoNew == \E name \in Names, text \in Texts : New(name, text)
DoAddSubelement ==
    \E rc \in recs, name \in Names, text \in Texts : AddSubelement(rc, name, text)
DoAppend == \E a \in recs, b \in recs : AppendRec(a, b)
DoSetAttributes ==
    \E rc \in recs, key \in Names, value \in Values : SetAttributes(rc, key, value)
DoGetAttribute == \E rc \in recs, key \in Names : GetAttribute(rc, key)
DoNamespaces == \E rc \in recs : Namespaces(rc)
DoGetChildren == \E rc \in recs : GetChildren(rc)
DoGetParent == \E rc \in recs : GetParent(rc)
DoGetItem == \E rc \in recs, desc \in BOOLEAN, name \in Names : GetItem(rc, desc, name)
DoStr == \E rc \in recs : Str(rc)
DoRegister ==
    \E item \in Items, replace \in BOOLEAN, verbose \in BOOLEAN :
        Register(item, replace, verbose)
DoDeregister == \E key \in Idents : Deregister(key)
DoXJsonRegister == \E rc \in recs : XJsonRegister(rc)

\* registry.register(record, replace_existing, verbose) on a record
DoRegisterRecord ==
    \E rc \in recs, replace \in BOOLEAN, verbose \in BOOLEAN :
        Register([ident |-> rc.ident, obj |-> rc.root], replace, verbose)

\* the first record of a run: the root of a document
DoNewDocument == elem = <<>> /\ DoNew
\* set_attributes with a key in the {uri}local form
DoSetNamespacedAttribute ==
    \E rc \in recs, key \in ClarkNames, value \in Values :
        SetAttributes(rc, key, value)

\* every operation of the package
Next ==
    \/ DoNew \/ DoAddSubelement \/ DoAppend \/ DoSetAttributes \/ DoGetAttribute
    \/ DoNamespaces \/ DoGetChildren \/ DoGetParent \/ DoGetItem \/ DoStr
    \/ DoRegister \/ DoDeregister \/ DoXJsonRegister \/ DoRegisterRecord

Spec == Init /\ [][Next]_vars

\* The interleaving of every operation with every other is beyond an
\* exhaustive search at these bounds.  Each specification below runs the
\* same actions from the same initial state and keeps the operations that
\* write or read what its claims are about.

\* attributes: building a tree, setting and reading attributes
NextAttr ==
    DoNew \/ DoAddSubelement \/ DoSetAttributes \/ DoGetAttribute \/ DoGetParent
SpecAttr == Init /\ [][NextAttr]_vars

\* namespaces: every operation that grafts trees or writes to a map,
\* short of the path query
NextNs ==
    \/ DoNew \/ DoAddSubelement \/ DoAppend \/ DoSetNamespacedAttribute
    \/ DoNamespaces \/ DoStr \/ DoGetChildren
SpecNs == Init /\ [][NextNs]_vars

\* queries: one document built from its root, an attribute whose
\* namespace no map holds yet, and the path queries on it
NextQuery ==
    DoNewDocument \/ DoAddSubelement \/ DoSetNamespacedAttribute \/ DoGetItem
SpecQuery == Init /\ [][NextQuery]_vars

\* navigation: every operation that hands out a record made from another
NextNav ==
    DoNew \/ DoAddSubelement \/ DoGetItem \/ DoGetChildren \/ DoGetParent
SpecNav == Init /\ [][NextNav]_vars

\* the registry, with the records that register themselves
NextRegistry == DoNew \/ DoRegister \/ DoDeregister \/ DoXJsonRegister
SpecRegistry == Init /\ [][NextRegistry]_vars

\* identifiers: records of any element registered by either route,
\* registry.register(record, replace_existing, verbose) or record.register()
NextIdent ==
    \/ DoNew \/ DoAddSubelement \/ DoGetParent
    \/ DoRegisterRecord \/ DoXJsonRegister \/ DoDeregister
SpecIdent == Init /\ [][NextIdent]_vars

\* the codec: one document decoded, encoded and decoded again
\* XJson.from_xml hands the document to the decoder (xjson.py:169-196)
CodecInit ==
    /\ elem = <<>>
    /\ maps = [m \in MapIds |-> EmptyMap]
    /\ recs = {}
    /\ last = NoCall
    /\ registry = EmptyRegistry
    /\ regids = {}
    /\ reglast = NoRegCall
    /\ codec \in {[NoCodec EXCEPT !.pc = "read", !.doc = d] : d \in Documents}

Decode ==
    /\ codec.pc = "read"
    /\ LET d == TreeDecode(codec.doc)
       IN codec' = [codec EXCEPT !.pc = "decoded", !.body = d.body,
                                 !.context = d.context]
    /\ UNCHANGED <<elem, maps, recs, last, registry, regids, reglast>>

Encode ==
    /\ codec.pc = "decoded"
    /\ LET e == TreeEncode(codec.body, codec.context)
       IN codec' = [codec EXCEPT !.pc = "encoded", !.xml = e.xml, !.err = e.err]
    /\ UNCHANGED <<elem, maps, recs, last, registry, regids, reglast>>

Redecode ==
    /\ codec.pc = "encoded"
    /\ codec.err = "none"
    /\ LET d == TreeDecode(codec.xml[1])
       IN codec' = [codec EXCEPT !.pc = "redecoded", !.body2 = d.body,
                                 !.context2 = d.context]
    /\ UNCHANGED <<elem, maps, recs, last, registry, regids, reglast>>

NextCodec == Decode \/ Encode \/ Redecode
SpecCodec == CodecInit /\ [][NextCodec]_vars

\* ----------------------------------------------------------------- claims

\* tests/test_xjson.py:51 json.loads on a text given as its pieces
\* "{", key, ":", value, ",", key, ":", value, "}": the top-level keys, or a
\* decode error for any other text
JsonIsObject(text) ==
    /\ Len(text) >= 2
    /\ text[1] = "{"
    /\ text[Len(text)] = "}"
    /\ Len(text) = 2 \/ Len(text) % 4 = 1
    /\ \A i \in 2 .. (Len(text) - 1) :
          /\ (i % 4 = 3 => text[i] = ":")
          /\ (i % 4 = 1 => text[i] = ",")
JsonLoads(text) ==
    IF JsonIsObject(text)
    THEN [ok |-> TRUE,
          keys |-> {text[i] : i \in {j \in 2 .. (Len(text) - 1) : j % 4 = 2}}]
    ELSE [ok |-> FALSE, keys |-> {}]

\* the top-level keys of a record's body: the shortened tag of its root
BodyKeys(rc) == {QNameStr(ShortenName(maps[rc.ns], elem[rc.root].tag))}

\* C2: register stores the record under its identifier unless the
\* identifier is present and replace_existing is false: inserted when
\* absent, unchanged when present and not replacing, overwritten when
\* replacing.
C2_RegisterStores ==
    reglast.op = "register" =>
        IF RegistryHas(reglast.pre, reglast.key) /\ ~reglast.replace
        THEN registry = reglast.pre
        ELSE registry = [reglast.pre EXCEPT ![reglast.key] = reglast.item]

\* C3: record[path] returns None for zero matches, the single match itself
\* for one match, otherwise the ordered sequence of all matches, and a
\* query with no match does not raise.  The matches are the elements below
\* the root (children, or all descendants for ".//") that carry the tag
\* the path names, in document order.
IsMatch(rc, desc, name, n) ==
    /\ IF desc THEN n # rc.root /\ IsAncestorOrSame(elem, rc.root, n)
               ELSE elem[n].parent = rc.root
    /\ elem[n].tag.local = name.local
    /\ elem[n].tag.ns = IF name.form = "short"
                        THEN NsGetItem(maps[rc.ns], name.ns)
                        ELSE name.ns
Resolves(rc, name) == name.form = "short" => NsHasKey(maps[rc.ns], name.ns)
MatchSet(rc, desc, name) ==
    {n \in 1 .. Len(elem) : IsMatch(rc, desc, name, n)}
InDocumentOrder(root, s) ==
    \A i \in 1 .. Len(s), j \in 1 .. Len(s) :
        i < j => \E p \in 1 .. Len(Descendants(elem, root)),
                    q \in 1 .. Len(Descendants(elem, root)) :
                    /\ p < q
                    /\ Descendants(elem, root)[p] = s[i]
                    /\ Descendants(elem, root)[q] = s[j]
C3_GetItemShape ==
    (last.op = "getitem" /\ Resolves(last.rec, last.name)) =>
        LET ms == MatchSet(last.rec, last.desc, last.name)
        IN /\ last.err = "none"
           /\ SeqToSet(last.nodes) = ms
           /\ Len(last.nodes) = Cardinality(ms)
           /\ InDocumentOrder(last.rec.root, last.nodes)
           /\ {x.root : x \in last.made} = ms
           /\ Cardinality(ms) = 0 => last.shape = "None"
           /\ Cardinality(ms) = 1 => last.shape = "single"
           /\ Cardinality(ms) >= 2 => last.shape = "list"
C3_Witness ==
    /\ last.op = "getitem"
    /\ last.shape = "list"
    /\ Len(last.nodes) = 2

\* C4: two successive evaluations of record[path] on an unmodified record
\* return results of equal length and content, and an evaluation leaves
\* the tree as it was.
SameQuery(c, d) ==
    /\ c.op = "getitem" /\ d.op = "getitem"
    /\ c.rec = d.rec /\ c.name = d.name /\ c.desc = d.desc
C4_QueryIdempotent ==
    [][(last'.op = "getitem" => elem' = elem)
       /\ (SameQuery(last, last') =>
              /\ last'.nodes = last.nodes
              /\ last'.shape = last.shape
              /\ last'.err = last.err)]_vars
C4_Witness ==
    /\ last.op = "getitem"
    /\ last.again
    /\ Len(last.nodes) = 2

\* C5: str(record) is JSON text whose top-level keys are the body's
\* top-level keys plus "@context".
C5_StrIsJson ==
    last.op = "str" =>
        /\ JsonLoads(last.text).ok
        /\ JsonLoads(last.text).keys = BodyKeys(last.rec) \cup {"@context"}

\* C6: after set_attributes with a namespace-qualified key the key's
\* namespace is registered in the record's map, and get_attribute returns
\* the value set for the key in its short form as in its expanded form.
StoredValue(rc, uri, local) ==
    AttribGet(elem[rc.root].attrib, [ns |-> uri, local |-> local])
C6_AttributeResolution ==
    /\ (last.op = "set_attributes" /\ last.name.form = "clark") =>
           /\ last.err = "none"
           /\ maps[last.rec.ns][last.name.ns] # 0
    /\ (last.op = "get_attribute" /\ last.name.form = "clark") =>
           last.val = StoredValue(last.rec, last.name.ns, last.name.local)
    /\ (last.op = "get_attribute" /\ last.name.form = "short"
          /\ NsHasKey(maps[last.rec.ns], last.name.ns)) =>
           last.val = StoredValue(last.rec, NsGetItem(maps[last.rec.ns], last.name.ns),
                                  last.name.local)

\* C7: in every NamespaceMap instance no two uris share a prefix, a uri
\* keeps the prefix it was given, and no registered uri is removed.
Injective(m) ==
    \A u \in Registered(m), v \in Registered(m) : m[u] = m[v] => u = v
C7_MapInjectiveStable ==
    [][\A m \in MapIds :
          /\ Injective(maps'[m])
          /\ \A u \in Registered(maps[m]) : maps'[m][u] = maps[m][u]]_vars
C7_Witness ==
    /\ last.op = "append"
    /\ \E m \in MapIds : Cardinality(Registered(maps[m])) = 2
    /\ Registered(last.pre) # Registered(maps[last.rec.ns])

\* C8: after a.append(b), b's root is the last child of a's root, every uri
\* registered in b's map is registered in a's map, and every uri a's map
\* held before still has the prefix it had.
C8_AppendMerges ==
    (last.op = "append" /\ last.err = "none") =>
        LET a == last.rec
            b == last.other
            kids == elem[a.root].kids
        IN /\ Len(kids) > 0
           /\ kids[Len(kids)] = b.root
           /\ elem[b.root].parent = a.root
           /\ Registered(maps[b.ns]) \subseteq Registered(maps[a.ns])
           /\ \A u \in Registered(last.pre) : maps[a.ns][u] = last.pre[u]
C8_Witness ==
    /\ last.op = "append"
    /\ last.err = "none"
    /\ last.rec.ns # last.other.ns
    /\ Registered(last.pre) # {}
    /\ ~(Registered(maps[last.other.ns]) \subseteq Registered(last.pre))
    /\ Len(elem[last.rec.root].kids) = 2

\* C9: deregister(ident) removes exactly that entry when it is held, and
\* fails with KeyError, leaving the registry as it was, when it is not.
C9_Deregister ==
    reglast.op = "deregister" =>
        IF RegistryHas(reglast.pre, reglast.key)
        THEN /\ reglast.err = "none"
             /\ ~RegistryHas(registry, reglast.key)
             /\ \A k \in Idents \ {reglast.key} : registry[k] = reglast.pre[k]
        ELSE /\ reglast.err = "KeyError"
             /\ registry = reglast.pre
C9_Witness ==
    /\ reglast.op = "deregister"
    /\ reglast.err = "none"
    /\ \E k \in Idents : RegistryHas(registry, k)

\* C10: a record produced by navigating from a record (add_subelement,
\* get_children, get_parent, a path query) holds the very NamespaceMap
\* instance of the record it came from, also when that map is empty.
NavOps == {"add_subelement", "get_children", "get_parent", "getitem"}
C10_ViewsShareMap ==
    last.op \in NavOps => \A x \in last.made : x.ns = last.rec.ns

Reprefix(from, to, key) ==
    IF key.form = "plain" THEN key
    ELSE [key EXCEPT !.ns = PrefixNames[to[NsGetItem(from, key.ns)]]]
RECURSIVE ReprefixKids(_, _, _)
RECURSIVE ReprefixItems(_, _, _)
ReprefixKids(from, to, kids) ==
    [i \in 1 .. Len(kids) |->
        [key |-> Reprefix(from, to, kids[i].key),
         items |-> ReprefixItems(from, to, kids[i].items)]]
ReprefixItems(from, to, items) ==
    [j \in 1 .. Len(items) |->
        [data |-> items[j].data,
         attributes |->
             [a \in 1 .. Len(items[j].attributes) |->
                 [key |-> Reprefix(from, to, items[j].attributes[a].key),
                  value |-> items[j].attributes[a].value]],
         kids |-> ReprefixKids(from, to, items[j].kids)]]

Mutation(c) ==
    /\ c.err = "none"
    /\ \/ c.op \in {"add_subelement", "append"}
       \/ c.op = "set_attributes" /\ c.name.form = "clark" /\ c.pre[c.name.ns] = 0
Harvested(el, ms, rc) ==
    SeqToSet(TreeUris(el, rc.root)) \subseteq Registered(ms[rc.ns])
C11_CacheStateMachine ==
    [][/\ last'.op = "namespaces" =>
             /\ Fresh(last'.rec) \in recs'
             /\ last'.rec.upd => Harvested(elem', maps', last'.rec)
             /\ ~last'.rec.upd => maps' = maps
       /\ Mutation(last') => Stale(last'.rec) \in recs'
       /\ (Mutation(last) /\ last'.op = "namespaces"
             /\ last'.rec.root = last.rec.root /\ last'.rec.ns = last.rec.ns) =>
             Harvested(elem', maps', last'.rec)]_vars

\* C12: every record, whatever it is built on, carries the one identifier
\* derived from the package constant, and no operation changes it; so
\* however records are registered the registry holds at most one entry.
Held(reg) == {k \in Idents : RegistryHas(reg, k)}
C12_OneIdentifier ==
    /\ \A rc \in recs : rc.ident = XJsonIdent
    /\ Cardinality(Held(registry)) <= 1
    /\ \A k \in Held(registry) : k = XJsonIdent
C12_Witness ==
    /\ reglast.op = "register"
    /\ reglast.replace
    /\ RegistryHas(reglast.pre, reglast.key)
    /\ reglast.pre[reglast.key].obj # reglast.item.obj
    /\ registry[reglast.key] = reglast.item
    /\ Cardinality({rc.root : rc \in recs}) >= 2

====
